---- MODULE Spec2Model ----
(***************************************************************************)
(* Model of job_scheduler (src/src/lib.rs): Job, JobScheduler, the         *)
(* catch-up / priming algorithm of Job::tick and the wake-up prediction of *)
(* JobScheduler::time_till_next_job.                                       *)
(*                                                                         *)
(* Time is the instant of a DateTime in seconds, the resolution of a cron   *)
(* Schedule.  A DateTime with a FixedOffset is the pair [t, off]:          *)
(* comparisons and differences use the instant t only (as chrono does),    *)
(* the offset off (seconds east of UTC) decides the calendar reading       *)
(* t + off the Schedule matches.                                           *)
(***************************************************************************)
EXTENDS Integers, Sequences, FiniteSets, TLC

VARIABLES
    jobs,       \* JobScheduler.jobs: Vec<Job>
    timezone,   \* JobScheduler.timezone: FixedOffset
    job,        \* the Job the caller has built and not yet handed to add:
                \* <<>> or <<the Job>>
    clock,      \* Utc::now()
    nextUuid,   \* source of Uuid::new_v4()
    runs,       \* history: per job id, the occurrences its action ran for
    dropped,    \* history: per job id, due occurrences a tick left unfired
    primedAt,   \* history: per job id, {} or {the time of its priming advance}
    ticked,     \* history: the ids of the jobs a tick has advanced
    last        \* history: the last public call and what it returned

vars == <<jobs, timezone, job, clock, nextUuid, runs, dropped, primedAt, ticked, last>>

----------------------------------------------------------------------------
(* Option<DateTime<FixedOffset>> *)
None == [some |-> FALSE, t |-> 0, off |-> 0]
Some(t, off) == [some |-> TRUE, t |-> t, off |-> off]

(* Bounds of the exploration *)
MaxClock == 4        \* the clock runs from 0 to MaxClock seconds
MaxClockSched == 1   \* and to MaxClockSched seconds with several Jobs stored
MaxJobs == 2         \* number of Jobs ever built
MaxLimit == 2        \* limit_missed_runs arguments are 0..MaxLimit

(* Program constants *)
DefaultGuessMs == 500    \* Duration::from_millis(500)
DefaultLimit == 1        \* limit_missed_runs: 1
UtcOffset == 0           \* FixedOffset::east_opt(0)

Times == 0..MaxClock                     \* values the clock takes
Horizon == MaxClock + 2                  \* occurrences are enumerated this far
Seconds == 0..Horizon
Forever == Horizon + 2

Offsets == {UtcOffset, UtcOffset + 1}    \* FixedOffset values used
Uuids == 1..MaxJobs

(* cron Schedules, as the set of calendar readings (local seconds) they    *)
(* match: every l with l % period = phase and l <= until.  EverySecond is  *)
(* "* * * * * *"; OddSeconds matches the odd seconds of its year, which    *)
(* ends after second 3: it reads differently in different offsets and has  *)
(* no occurrence after its year.                                           *)
EverySecond == [period |-> 1, phase |-> 0, until |-> Forever]
OddSeconds == [period |-> 2, phase |-> 1, until |-> 3]
Schedules == {EverySecond, OddSeconds}

(* arguments of Job::last_tick *)
ForcedTicks == {None} \cup {Some(t, off) : t \in Times, off \in Offsets}

----------------------------------------------------------------------------
(* Does the schedule have an occurrence at instant o, read in offset off? *)
Matches(schedule, off, o) ==
    LET l == o + off
    IN /\ l % schedule.period = schedule.phase
       /\ l <= schedule.until

(* Schedule::after(&dt): the ascending occurrences strictly after dt, read *)
(* in dt's own offset.                                                     *)
RECURSIVE Occurrences(_, _, _)
Occurrences(schedule, off, from) ==
    IF from > Horizon THEN <<>>
    ELSE (IF Matches(schedule, off, from) THEN <<from>> ELSE <<>>)
            \o Occurrences(schedule, off, from + 1)

(* after that also yields an occurrence at dt itself *)
After_Inclusive(schedule, dt) == Occurrences(schedule, dt.off, dt.t)

After(schedule, dt) == Occurrences(schedule, dt.off, dt.t + 1)

(* upcoming that enumerates from the epoch instead of from now *)
Upcoming_FromEpoch(schedule, tz, now) == After(schedule, Some(0, tz))

(* Schedule::upcoming(tz): after(now in tz) *)
Upcoming(schedule, tz, now) == After(schedule, Some(now, tz))

(* take that yields one element too many *)
Take_OneMore(s, n) == SubSeq(s, 1, IF n + 1 < Len(s) THEN n + 1 ELSE Len(s))

(* Iterator::take(n) *)
Take(s, n) == SubSeq(s, 1, IF n < Len(s) THEN n ELSE Len(s))

(* the loop without its break *)
RunLoop_NoBreak(events, now) == events

(* the loop breaking on event >= now *)
RECURSIVE RunLoop_BreakAtNow(_, _)
RunLoop_BreakAtNow(events, now) ==
    IF events = <<>> THEN <<>>
    ELSE IF Head(events) >= now THEN <<>>
    ELSE <<Head(events)>> \o RunLoop_BreakAtNow(Tail(events), now)

(* for event in events { if event > now { break; } (self.run)(); }         *)
(* the occurrences the action is invoked for, in order *)
RECURSIVE RunLoop(_, _)
RunLoop(events, now) ==
    IF events = <<>> THEN <<>>
    ELSE IF Head(events) > now THEN <<>>
    ELSE <<Head(events)>> \o RunLoop(Tail(events), now)

(* Job::new *)
NewJob(schedule, uuid) ==
    [schedule |-> schedule,
     last_tick |-> None,
     limit_missed_runs |-> DefaultLimit,
     job_id |-> uuid,
     timezone |-> UtcOffset]

(* Option::take() in place of replace(now): last_tick is left absent *)
Replace_Take(j, now) == [j EXCEPT !.last_tick = None]

(* now stored as the local reading of the UTC clock *)
Replace_Shifted(j, now) == [j EXCEPT !.last_tick = Some(now - j.timezone, j.timezone)]

(* self.last_tick.replace(now) *)
Replace(j, now) == [j EXCEPT !.last_tick = Some(now, j.timezone)]

(* Job::tick that applies take(limit) also when the limit is 0 *)
Job_tick_TakeZero(j, now) ==
    LET prev == j.last_tick
        fired ==
            IF ~prev.some THEN <<>>
            ELSE RunLoop(Take(After(j.schedule, prev), j.limit_missed_runs), now)
    IN [job |-> Replace(j, now), prev |-> prev, now |-> now, fired |-> fired]

(* Job::tick that leaves last_tick at the last occurrence it fired *)
Job_tick_Defer(j, now) ==
    LET prev == j.last_tick
        fired ==
            IF ~prev.some THEN <<>>
            ELSE IF j.limit_missed_runs > 0
                 THEN RunLoop(Take(After(j.schedule, prev), j.limit_missed_runs), now)
                 ELSE RunLoop(After(j.schedule, prev), now)
    IN [job |-> IF fired = <<>> THEN Replace(j, now)
                ELSE Replace(j, fired[Len(fired)]),
        prev |-> prev, now |-> now, fired |-> fired]

(* Job::tick without the early return of an unprimed job: it catches up    *)
(* from the epoch                                                          *)
Job_tick_NoPriming(j, now) ==
    LET prev == IF j.last_tick.some THEN j.last_tick ELSE Some(0, j.timezone)
        fired ==
            IF j.limit_missed_runs > 0
            THEN RunLoop(Take(After(j.schedule, prev), j.limit_missed_runs), now)
            ELSE RunLoop(After(j.schedule, prev), now)
    IN [job |-> Replace(j, now), prev |-> j.last_tick, now |-> now, fired |-> fired]

(* Job::tick that replaces last_tick only when it primes or fires *)
Job_tick_SkipIdle(j, now) ==
    LET prev == j.last_tick
        fired ==
            IF ~prev.some THEN <<>>
            ELSE IF j.limit_missed_runs > 0
                 THEN RunLoop(Take(After(j.schedule, prev), j.limit_missed_runs), now)
                 ELSE RunLoop(After(j.schedule, prev), now)
    IN [job |-> IF prev.some /\ fired = <<>> THEN j ELSE Replace(j, now),
        prev |-> prev, now |-> now, fired |-> fired]

(* Job::tick at the instant now: the job afterwards and the occurrences    *)
(* the action was invoked for.                                             *)
Job_tick(j, now) ==
    LET prev == j.last_tick
        fired ==
            IF ~prev.some THEN <<>>
            ELSE IF j.limit_missed_runs > 0
                 THEN RunLoop(Take(After(j.schedule, prev), j.limit_missed_runs), now)
                 ELSE RunLoop(After(j.schedule, prev), now)
    IN [job |-> Replace(j, now), prev |-> prev, now |-> now, fired |-> fired]

(* The due occurrences of one advance, by definition rather than by        *)
(* iteration: the o with previous < o <= now, read in previous' offset.    *)
Due(schedule, prev, now) ==
    {o \in Seconds : prev.some /\ prev.t < o /\ o <= now
                        /\ Matches(schedule, prev.off, o)}

SeqToSet(s) == {s[i] : i \in 1..Len(s)}

RECURSIVE SumTo(_, _)
SumTo(f, n) == IF n = 0 THEN 0 ELSE f[n] + SumTo(f, n - 1)

(* record of the last public call and its result; calls that return        *)
(* nothing are recorded alike                                              *)
Call(op, id, found, dur, adv) ==
    [op |-> op, id |-> id, found |-> found, dur |-> dur, adv |-> adv]

NoDur == [ok |-> TRUE, ms |-> 0]

----------------------------------------------------------------------------
(* JobScheduler::new *)
Init ==
    /\ jobs = <<>>
    /\ timezone = UtcOffset
    /\ job = <<>>
    /\ clock = 0
    /\ nextUuid = 1
    /\ runs = [u \in Uuids |-> <<>>]
    /\ dropped = [u \in Uuids |-> {}]
    /\ primedAt = [u \in Uuids |-> {}]
    /\ ticked = {}
    /\ last = Call("other", 0, FALSE, NoDur, <<>>)

(* time passes between calls *)
Advance ==
    /\ clock + 1 <= MaxClock
    /\ clock' = clock + 1
    /\ last' = Call("other", 0, FALSE, NoDur, <<>>)
    /\ UNCHANGED <<jobs, timezone, job, nextUuid, runs, dropped, primedAt, ticked>>

(* Job::new that gives every Job the same identifier *)
Job_new_SameUuid(schedule) ==
    /\ job = <<>>
    /\ nextUuid <= MaxJobs
    /\ job' = <<NewJob(schedule, 1)>>
    /\ nextUuid' = nextUuid + 1
    /\ last' = Call("other", 0, FALSE, NoDur, <<>>)
    /\ UNCHANGED <<jobs, timezone, clock, runs, dropped, primedAt, ticked>>

(* Job::new(schedule, run) *)
Job_new(schedule) ==
    /\ job = <<>>
    /\ nextUuid <= MaxJobs
    /\ job' = <<NewJob(schedule, nextUuid)>>
    /\ nextUuid' = nextUuid + 1
    /\ last' = Call("other", 0, FALSE, NoDur, <<>>)
    /\ UNCHANGED <<jobs, timezone, clock, runs, dropped, primedAt, ticked>>

(* Job::limit_missed_runs(limit) *)
Job_limit_missed_runs(limit) ==
    /\ job # <<>>
    /\ job' = <<[job[1] EXCEPT !.limit_missed_runs = limit]>>
    /\ last' = Call("other", 0, FALSE, NoDur, <<>>)
    /\ UNCHANGED <<jobs, timezone, clock, nextUuid, runs, dropped, primedAt, ticked>>

(* a setter that stores nothing *)
Job_last_tick_Ignored(last_tick) ==
    /\ job # <<>>
    /\ job' = job
    /\ last' = Call("other", 0, FALSE, NoDur, <<>>)
    /\ UNCHANGED <<jobs, timezone, clock, nextUuid, runs, dropped, primedAt, ticked>>

(* Job::last_tick(last_tick) *)
Job_last_tick(last_tick) ==
    /\ job # <<>>
    /\ job' = <<[job[1] EXCEPT !.last_tick = last_tick]>>
    /\ last' = Call("other", 0, FALSE, NoDur, <<>>)
    /\ UNCHANGED <<jobs, timezone, clock, nextUuid, runs, dropped, primedAt, ticked>>

(* add that stores the Job with the offset Job::new gave it *)
JobScheduler_add_KeepOffset ==
    /\ job # <<>>
    /\ jobs' = Append(jobs, job[1])
    /\ job' = <<>>
    /\ last' = Call("add", job[1].job_id, FALSE, NoDur, <<>>)
    /\ UNCHANGED <<timezone, clock, nextUuid, runs, dropped, primedAt, ticked>>

(* JobScheduler::add(job) *)
JobScheduler_add ==
    /\ job # <<>>
    /\ jobs' = Append(jobs, [job[1] EXCEPT !.timezone = timezone])
    /\ job' = <<>>
    /\ last' = Call("add", job[1].job_id, FALSE, NoDur, <<>>)
    /\ UNCHANGED <<timezone, clock, nextUuid, runs, dropped, primedAt, ticked>>

(* a search that reports the last index when nothing matches *)
FoundIndex_Fallback(js, job_id) ==
    IF \E i \in 1..Len(js) : js[i].job_id = job_id
    THEN CHOOSE i \in 1..Len(js) :
            /\ js[i].job_id = job_id
            /\ \A k \in 1..(i - 1) : js[k].job_id # job_id
    ELSE Len(js)

(* the index remove's loop finds: the first job with that id, 0 if none *)
FoundIndex(js, job_id) ==
    IF \E i \in 1..Len(js) : js[i].job_id = job_id
    THEN CHOOSE i \in 1..Len(js) :
            /\ js[i].job_id = job_id
            /\ \A k \in 1..(i - 1) : js[k].job_id # job_id
    ELSE 0

(* Vec::pop() in place of Vec::remove(index) *)
RemoveAt_Pop(js, index) == SubSeq(js, 1, Len(js) - 1)

(* Vec::remove(index) *)
RemoveAt(js, index) ==
    [i \in 1..(Len(js) - 1) |-> IF i < index THEN js[i] ELSE js[i + 1]]

(* JobScheduler::remove(job_id) *)
JobScheduler_remove(job_id) ==
    LET found_index == FoundIndex(jobs, job_id)
    IN /\ jobs' = IF found_index # 0 THEN RemoveAt(jobs, found_index) ELSE jobs
       /\ last' = Call("remove", job_id, found_index # 0, NoDur, <<>>)
       /\ UNCHANGED <<timezone, job, clock, nextUuid, runs, dropped, primedAt, ticked>>

(* JobScheduler::tick(): every stored job is advanced in the Vec's order;  *)
(* each Job::tick reads the clock itself, and the actions it runs take     *)
(* time: took[i] is the number of clock steps that pass after job i's      *)
(* advance started and before the next job's.                              *)
JobScheduler_tick(took) ==
    LET n == Len(jobs)
        nowAt(i) == clock + SumTo(took, i - 1)
        of(u) == {i \in 1..n : jobs[i].job_id = u}
        idx(u) == CHOOSE i \in of(u) : TRUE
    IN \E adv \in {[i \in 1..n |-> Job_tick(jobs[i], nowAt(i))]} :
       /\ clock + SumTo(took, n) <= MaxClock
       /\ jobs' = [i \in 1..n |-> adv[i].job]
       /\ clock' = clock + SumTo(took, n)
       /\ runs' = [u \in Uuids |->
                     IF of(u) = {} THEN runs[u] ELSE runs[u] \o adv[idx(u)].fired]
       /\ dropped' = [u \in Uuids |->
                     IF of(u) = {} THEN dropped[u]
                     ELSE dropped[u] \cup
                          (Due(jobs[idx(u)].schedule, adv[idx(u)].prev, adv[idx(u)].now)
                             \ SeqToSet(adv[idx(u)].fired))]
       /\ primedAt' = [u \in Uuids |->
                     IF of(u) # {} /\ ~adv[idx(u)].prev.some
                     THEN {adv[idx(u)].now} ELSE primedAt[u]]
       /\ ticked' = ticked \cup {u \in Uuids : of(u) # {}}
       /\ last' = Call("tick", 0, FALSE, NoDur,
                       [i \in 1..n |-> [id |-> jobs[i].job_id,
                                        schedule |-> jobs[i].schedule,
                                        limit |-> jobs[i].limit_missed_runs,
                                        first |-> jobs[i].job_id \notin ticked,
                                        prev |-> adv[i].prev,
                                        now |-> adv[i].now,
                                        fired |-> adv[i].fired]])
       /\ UNCHANGED <<timezone, job, nextUuid>>

(* chrono Duration::to_std(): fails on a negative duration; the result in  *)
(* milliseconds                                                            *)
ToStd(d) == [ok |-> d >= 0, ms |-> d * 1000]

(* the loop keeping the last job's duration instead of the least *)
RECURSIVE Scan_KeepLast(_, _, _, _, _)
Scan_KeepLast(js, i, tz, now, duration) ==
    IF i > Len(js) THEN duration
    ELSE LET events == Take(Upcoming(js[i].schedule, tz, now), 1)
             d == events[1] - now
         IN Scan_KeepLast(js, i + 1, tz, now,
                          IF events = <<>> THEN duration ELSE d)

(* the loop of time_till_next_job over jobs i..Len(js) *)
RECURSIVE Scan(_, _, _, _, _)
Scan(js, i, tz, now, duration) ==
    IF i > Len(js) THEN duration
    ELSE LET events == Take(Upcoming(js[i].schedule, tz, now), 1)
             d == events[1] - now
         IN Scan(js, i + 1, tz, now,
                 IF events = <<>> THEN duration
                 ELSE IF duration = 0 \/ d < duration THEN d ELSE duration)

(* time_till_next_job without the guess for an empty collection *)
TimeTillNextJob_NoGuess(js, tz, now) == ToStd(Scan(js, 1, tz, now, 0))

TimeTillNextJob(js, tz, now) ==
    IF js = <<>> THEN [ok |-> TRUE, ms |-> DefaultGuessMs]
    ELSE ToStd(Scan(js, 1, tz, now, 0))

(* time_till_next_job that also advances the jobs' last_tick *)
JobScheduler_time_till_next_job_Touching ==
    /\ last' = Call("time_till_next_job", 0, FALSE,
                    TimeTillNextJob(jobs, timezone, clock), <<>>)
    /\ jobs' = [i \in 1..Len(jobs) |-> Replace(jobs[i], clock)]
    /\ UNCHANGED <<timezone, job, clock, nextUuid, runs, dropped, primedAt, ticked>>

(* JobScheduler::time_till_next_job() *)
JobScheduler_time_till_next_job ==
    /\ last' = Call("time_till_next_job", 0, FALSE,
                    TimeTillNextJob(jobs, timezone, clock), <<>>)
    /\ UNCHANGED <<jobs, timezone, job, clock, nextUuid, runs, dropped, primedAt, ticked>>

(* JobScheduler::set_timezone(tz) *)
JobScheduler_set_timezone(tz) ==
    /\ timezone' = tz
    /\ last' = Call("other", 0, FALSE, NoDur, <<>>)
    /\ UNCHANGED <<jobs, job, clock, nextUuid, runs, dropped, primedAt, ticked>>

Next ==
    \/ Advance
    \/ \E schedule \in Schedules : Job_new(schedule)
    \/ \E limit \in 0..MaxLimit : Job_limit_missed_runs(limit)
    \/ \E last_tick \in ForcedTicks : Job_last_tick(last_tick)
    \/ JobScheduler_add
    \/ \E job_id \in Uuids : JobScheduler_remove(job_id)
    \/ \E took \in [1..Len(jobs) -> {0, 1}] : JobScheduler_tick(took)
    \/ JobScheduler_time_till_next_job
    \/ \E tz \in Offsets : JobScheduler_set_timezone(tz)

(* Every operation, any number of Jobs up to MaxJobs *)
Spec == Init /\ [][Next]_vars

(* The life of one Job: every operation, with a single Job ever built.     *)
(* Job::tick reads and writes its own Job only, so the properties of an    *)
(* advance are explored here with longer clocks and larger limits.         *)
NextJob ==
    \/ Advance
    \/ \E schedule \in Schedules : nextUuid = 1 /\ Job_new(schedule)
    \/ \E limit \in 0..MaxLimit : Job_limit_missed_runs(limit)
    \/ \E last_tick \in ForcedTicks : Job_last_tick(last_tick)
    \/ JobScheduler_add
    \/ \E job_id \in Uuids : JobScheduler_remove(job_id)
    \/ \E took \in [1..Len(jobs) -> {0, 1}] : JobScheduler_tick(took)
    \/ JobScheduler_time_till_next_job
    \/ \E tz \in Offsets : JobScheduler_set_timezone(tz)

SpecJob == Init /\ [][NextJob]_vars

(* The collection: Jobs are added as Job::new builds them (unprimed,       *)
(* default limit), up to MaxJobs of them, over a shorter clock.            *)
NextSched ==
    \/ clock < MaxClockSched /\ Advance
    \/ \E schedule \in Schedules : Job_new(schedule)
    \/ JobScheduler_add
    \/ \E job_id \in Uuids : JobScheduler_remove(job_id)
    \/ \E took \in [1..Len(jobs) -> {0, 1}] :
          JobScheduler_tick(took) /\ clock' <= MaxClockSched
    \/ JobScheduler_time_till_next_job
    \/ \E tz \in Offsets : JobScheduler_set_timezone(tz)

SpecSched == Init /\ [][NextSched]_vars

----------------------------------------------------------------------------
(* Vocabulary of the properties *)
Stored(u) == \E i \in 1..Len(jobs) : jobs[i].job_id = u
Built(u) == u < nextUuid
InHand(u) == job # <<>> /\ job[1].job_id = u
Removed(u) == Built(u) /\ ~Stored(u) /\ ~InHand(u)
Min2(a, b) == IF a < b THEN a ELSE b
Count(s, o) == Cardinality({i \in 1..Len(s) : s[i] = o})
Ticked == last.op = "tick"
Advances == {last.adv[i] : i \in 1..Len(last.adv)}
RECURSIVE SortedSeq(_)
SortedSeq(S) ==
    IF S = {} THEN <<>>
    ELSE LET m == CHOOSE x \in S : \A y \in S : x <= y
         IN <<m>> \o SortedSeq(S \ {m})

DueSeq(a) == SortedSeq(Due(a.schedule, a.prev, a.now))

(* C1: bounded catch-up.  An advance at time n of a job whose limit is     *)
(* L > 0 and whose last_tick was p <= n invokes the action for exactly the *)
(* earliest min(L, k) of the k occurrences in (p, n], in ascending order.  *)
C1_BoundedCatchUp ==
    Ticked =>
        \A a \in Advances :
            (a.prev.some /\ a.limit > 0 /\ a.now >= a.prev.t) =>
                /\ Len(a.fired) = Min2(a.limit, Len(DueSeq(a)))
                /\ a.fired = SubSeq(DueSeq(a), 1, Min2(a.limit, Len(DueSeq(a))))
                /\ Len(a.fired) <= a.limit

C1_Witness ==
    /\ Ticked
    /\ \E a \in Advances :
          /\ a.prev.some /\ a.limit > 1 /\ a.now >= a.prev.t
          /\ Len(DueSeq(a)) > a.limit
          /\ Len(a.fired) = a.limit

(* C2: unlimited catch-up.  With limit 0 an advance at time n of a job     *)
(* whose last_tick was p <= n invokes the action once for every occurrence *)
(* in (p, n], ascending, and for no other.                                 *)
C2_UnlimitedCatchUp ==
    Ticked =>
        \A a \in Advances :
            (a.prev.some /\ a.limit = 0 /\ a.now >= a.prev.t) =>
                a.fired = DueSeq(a)

C2_Witness ==
    /\ Ticked
    /\ \E a \in Advances :
          /\ a.prev.some /\ a.limit = 0 /\ a.now >= a.prev.t
          /\ Len(a.fired) >= 2

(* C3 as stated: the first tick after add never invokes the action and     *)
(* leaves last_tick at the tick's time, however the job was configured.    *)
C3_PrimingAnyConfiguration ==
    Ticked =>
        \A i \in 1..Len(last.adv) :
            last.adv[i].first =>
                /\ last.adv[i].fired = <<>>
                /\ jobs[i].last_tick = Some(last.adv[i].now, jobs[i].timezone)

(* C3 amended: the first tick after add of a job whose last_tick is absent *)
(* at the add invokes the action zero times, whatever its schedule and     *)
(* limit, and leaves last_tick equal to the time of that tick.             *)
C3_Priming ==
    Ticked =>
        \A i \in 1..Len(last.adv) :
            (last.adv[i].first /\ ~last.adv[i].prev.some) =>
                /\ last.adv[i].fired = <<>>
                /\ runs[last.adv[i].id] = <<>>
                /\ jobs[i].last_tick = Some(last.adv[i].now, jobs[i].timezone)

C3_Witness ==
    /\ Ticked
    /\ \E i \in 1..Len(last.adv) :
          /\ last.adv[i].first /\ ~last.adv[i].prev.some
          /\ last.adv[i].limit = 0
          /\ last.adv[i].now > 0
          /\ jobs[i].last_tick.some

(* C4: occurrences a tick left unfired because the limit was reached are   *)
(* dropped: no later tick invokes the action for them, every advance fires *)
(* only occurrences strictly after the previous advance's time.            *)
C4_DroppedNotDeferred ==
    /\ \A u \in Uuids : \A o \in dropped[u] : Count(runs[u], o) = 0
    /\ Ticked =>
          \A a \in Advances :
              \A k \in 1..Len(a.fired) : a.prev.some /\ a.fired[k] > a.prev.t

C4_Witness ==
    /\ Ticked
    /\ \E a \in Advances :
          /\ a.fired # <<>>
          /\ \E o \in dropped[a.id] : o <= a.prev.t

(* C5 as stated: every occurrence after the priming tick and at or before  *)
(* the latest tick has caused exactly one invocation.                      *)
C5_EveryOccurrenceOnce ==
    \A i \in 1..Len(jobs) :
        \A p \in primedAt[jobs[i].job_id] :
            \A o \in Seconds :
                (p < o /\ o <= jobs[i].last_tick.t
                   /\ Matches(jobs[i].schedule, jobs[i].timezone, o)) =>
                    Count(runs[jobs[i].job_id], o) = 1

(* C5 amended: for every stored job whose missed-run limit is 0, every     *)
(* occurrence after its priming tick and at or before its latest tick has  *)
(* caused exactly one invocation of its action.                            *)
C5_EveryOccurrenceOnceUnlimited ==
    \A i \in 1..Len(jobs) :
        jobs[i].limit_missed_runs = 0 =>
            \A p \in primedAt[jobs[i].job_id] :
                \A o \in Seconds :
                    (p < o /\ o <= jobs[i].last_tick.t
                       /\ Matches(jobs[i].schedule, jobs[i].timezone, o)) =>
                        Count(runs[jobs[i].job_id], o) = 1

C5_Witness ==
    \E i \in 1..Len(jobs) :
        /\ jobs[i].limit_missed_runs = 0
        /\ primedAt[jobs[i].job_id] # {}
        /\ Len(runs[jobs[i].job_id]) >= 3
        /\ Ticked /\ \E a \in Advances : a.id = jobs[i].job_id /\ Len(a.fired) = 1

C7_RemoveAbsent ==
    [][\A id \in Uuids :
          (JobScheduler_remove(id) /\ ~Stored(id)) =>
              /\ ~last'.found
              /\ jobs' = jobs
              /\ timezone' = timezone
      ]_vars

C7_Witness ==
    /\ last.op = "remove"
    /\ ~last.found
    /\ Removed(last.id)
    /\ jobs # <<>>

(* C8: safe sleep.  With a job stored, no stored job has an occurrence, as *)
(* tick evaluates it in the job's own time zone, strictly between the time *)
(* t of a time_till_next_job call and t + the duration it returned.        *)
C8_SafeSleep ==
    (last.op = "time_till_next_job" /\ jobs # <<>>) =>
        /\ last.dur.ok
        /\ \A i \in 1..Len(jobs) :
              \A o \in Seconds :
                  Matches(jobs[i].schedule, jobs[i].timezone, o) =>
                      ~(clock * 1000 < o * 1000 /\ o * 1000 < clock * 1000 + last.dur.ms)

(* C9: minimum prediction.  With a job stored, time_till_next_job returns  *)
(* the least, over the stored jobs that have an occurrence after now in    *)
(* the scheduler's current time zone, of that occurrence minus now.        *)
NextIn(schedule, tz, now) == {o \in Seconds : o > now /\ Matches(schedule, tz, o)}
Waits ==
    {o - clock : o \in UNION {NextIn(jobs[i].schedule, timezone, clock) : i \in 1..Len(jobs)}}

C10_IdlePrediction ==
    (last.op = "time_till_next_job" /\ jobs = <<>>) =>
        (last.dur.ok /\ last.dur.ms = 500)

C10_Witness ==
    /\ last.op = "time_till_next_job"
    /\ jobs = <<>>
    /\ timezone # UtcOffset
    /\ clock > 0
    /\ \E u \in Uuids : Removed(u)

JobOf(js, u) == js[CHOOSE i \in 1..Len(js) : js[i].job_id = u]

(* C11: time zone pinning.  A job gets the scheduler's time zone of the    *)
(* moment it is added, whatever offset Job::new gave it, and no later      *)
(* operation changes the time zone of a stored job.                        *)
C11_TimezonePinning ==
    [][\A u \in Uuids :
          /\ (~Stored(u) /\ Stored(u)') =>
                (JobOf(jobs', u).timezone = timezone /\ timezone' = timezone)
          /\ (Stored(u) /\ Stored(u)') =>
                JobOf(jobs', u).timezone = JobOf(jobs, u).timezone
      ]_vars

C11_Witness ==
    /\ Len(jobs) = 2
    /\ jobs[1].timezone = UtcOffset
    /\ jobs[2].timezone # UtcOffset
    /\ timezone = UtcOffset
    /\ Ticked

(* C12: forced last tick.  Job::last_tick(Some(T)) stores T; add keeps it; *)
(* the job's first tick at n > T fires the occurrences in (T, n], limited  *)
(* by the missed-run limit, so at least one when there is one.  After      *)
(* Job::last_tick(None) the first tick only primes the job.                *)
FirstN(s, limit) ==
    IF limit > 0 /\ limit < Len(s) THEN SubSeq(s, 1, limit) ELSE s

C12_ForcedLastTick ==
    [][/\ \A T \in ForcedTicks : Job_last_tick(T) => job'[1].last_tick = T
       /\ JobScheduler_add => jobs'[Len(jobs')].last_tick = job[1].last_tick
       /\ last'.op = "tick" =>
             \A i \in 1..Len(jobs) :
                 jobs[i].job_id \notin ticked =>
                     LET T == jobs[i].last_tick
                         n == last'.adv[i].now
                         due == SortedSeq(Due(jobs[i].schedule, T, n))
                     IN IF T.some
                        THEN n > T.t =>
                               /\ last'.adv[i].fired = FirstN(due, jobs[i].limit_missed_runs)
                               /\ due # <<>> => last'.adv[i].fired # <<>>
                        ELSE /\ last'.adv[i].fired = <<>>
                             /\ jobs'[i].last_tick = Some(n, jobs[i].timezone)
      ]_vars

C12_Witness ==
    /\ Ticked
    /\ \E a \in Advances :
          /\ a.first /\ a.prev.some /\ a.now > a.prev.t
          /\ a.prev.t > 0
          /\ a.limit = 2
          /\ Len(a.fired) = 2
          /\ Len(DueSeq(a)) > 2

(* C13: identifier uniqueness.  Job::new draws an identifier no Job built  *)
(* before has, add returns the identifier of the Job it stores, which was  *)
(* not stored before, and no two stored jobs have the same identifier, so  *)
(* remove matches at most one job.                                         *)
C13_UniqueIdentifiers ==
    [][/\ \A schedule \in Schedules :
             Job_new(schedule) => (~Built(job'[1].job_id) /\ ~Stored(job'[1].job_id))
       /\ JobScheduler_add =>
             /\ last'.id = job[1].job_id
             /\ ~Stored(last'.id)
             /\ jobs'[Len(jobs')].job_id = last'.id
       /\ \A i, k \in 1..Len(jobs') :
             jobs'[i].job_id = jobs'[k].job_id => i = k
       /\ \A id \in Uuids :
             Cardinality({i \in 1..Len(jobs') : jobs'[i].job_id = id}) <= 1
      ]_vars

C13_Witness ==
    /\ last.op = "add"
    /\ Len(jobs) = 2
    /\ last.id = jobs[2].job_id
    /\ jobs[1].job_id # jobs[2].job_id

(* C14: time_till_next_job is total and non-negative.  In every state,     *)
(* also with jobs that have no upcoming occurrence and jobs whose time     *)
(* zone differs from the scheduler's, the signed duration converts and the *)
(* call returns a duration >= 0.                                           *)
C14_PredictionTotal ==
    /\ TimeTillNextJob(jobs, timezone, clock).ok
    /\ TimeTillNextJob(jobs, timezone, clock).ms >= 0
    /\ last.op = "time_till_next_job" => (last.dur.ok /\ last.dur.ms >= 0)

C14_Witness ==
    /\ last.op = "time_till_next_job"
    /\ jobs # <<>>
    /\ Waits = {}
    /\ jobs[1].timezone # timezone
    /\ last.dur.ok
    /\ last.dur.ms = 0

(* C15: tick is the sole entry point that runs actions.  No other          *)
(* operation invokes any job's action, and time_till_next_job leaves every *)
(* job, the collection and the scheduler's time zone unchanged.            *)
C15_OnlyTickRuns ==
    [][/\ ( \/ \E schedule \in Schedules : Job_new(schedule)
            \/ \E limit \in 0..MaxLimit : Job_limit_missed_runs(limit)
            \/ \E T \in ForcedTicks : Job_last_tick(T)
            \/ JobScheduler_add
            \/ \E id \in Uuids : JobScheduler_remove(id)
            \/ \E tz \in Offsets : JobScheduler_set_timezone(tz)
            \/ JobScheduler_time_till_next_job ) => runs' = runs
       /\ last'.op # "tick" => runs' = runs
       /\ JobScheduler_time_till_next_job =>
             (jobs' = jobs /\ timezone' = timezone /\ job' = job)
       /\ last'.op = "time_till_next_job" => (jobs' = jobs /\ timezone' = timezone)
      ]_vars

C15_Witness ==
    /\ last.op = "time_till_next_job"
    /\ Len(jobs) = 1
    /\ jobs[1].last_tick.some
    /\ jobs[1].last_tick.t < clock
    /\ runs[jobs[1].job_id] # <<>>
    /\ NextIn(jobs[1].schedule, jobs[1].timezone, jobs[1].last_tick.t) # {}

(* C16: advance of an unprimed job.  An advance that finds last_tick       *)
(* absent sets it to the current time in the job's time zone and invokes   *)
(* nothing, whatever the schedule and the limit, limit 0 included.         *)
C16_UnprimedAdvance ==
    Ticked =>
        \A i \in 1..Len(last.adv) :
            ~last.adv[i].prev.some =>
                /\ last.adv[i].fired = <<>>
                /\ jobs[i].last_tick.some
                /\ jobs[i].last_tick.t = last.adv[i].now
                /\ jobs[i].last_tick.off = jobs[i].timezone

C16_Witness ==
    /\ Ticked
    /\ \E i \in 1..Len(last.adv) :
          /\ ~last.adv[i].prev.some
          /\ last.adv[i].limit = 0
          /\ last.adv[i].schedule = EverySecond
          /\ last.adv[i].now > 1
          /\ jobs[i].timezone # UtcOffset
          /\ jobs[i].last_tick = Some(last.adv[i].now, jobs[i].timezone)

(* C17 as stated: once last_tick holds a timestamp, however it was set,    *)
(* each advance leaves last_tick >= its value before that advance.         *)
C17_LastTickMonotone ==
    Ticked =>
        \A i \in 1..Len(last.adv) :
            last.adv[i].prev.some =>
                (jobs[i].last_tick.some /\ jobs[i].last_tick.t >= last.adv[i].prev.t)

(* C17 amended: once last_tick holds a timestamp that is not later than    *)
(* the current time (one set by an advance, or one given to the setter     *)
(* that is not in the future), each advance leaves last_tick >= its value  *)
(* before that advance.                                                    *)
C17_LastTickMonotoneFromPast ==
    Ticked =>
        \A i \in 1..Len(last.adv) :
            (last.adv[i].prev.some /\ last.adv[i].prev.t <= last.adv[i].now) =>
                (jobs[i].last_tick.some /\ jobs[i].last_tick.t >= last.adv[i].prev.t)

C17_Witness ==
    /\ Ticked
    /\ \E i \in 1..Len(last.adv) :
          /\ last.adv[i].prev.some
          /\ ~last.adv[i].first
          /\ last.adv[i].prev.t < last.adv[i].now
          /\ jobs[i].last_tick.t > last.adv[i].prev.t
          /\ jobs[i].timezone # UtcOffset

(* C18: per-job state machine.  A tick advances every stored job once:     *)
(* right after it every stored job is primed with last_tick at a time read *)
(* during that tick, jobs with nothing due included; and a primed job      *)
(* stays primed while it is stored.                                        *)
C18_EveryJobAdvanced ==
    [][/\ last'.op = "tick" =>
             /\ Len(jobs') = Len(jobs)
             /\ Len(last'.adv) = Len(jobs)
             /\ \A i \in 1..Len(jobs) :
                   /\ jobs'[i].job_id = jobs[i].job_id
                   /\ last'.adv[i].id = jobs[i].job_id
                   /\ jobs'[i].last_tick.some
                   /\ jobs'[i].last_tick.t = last'.adv[i].now
                   /\ clock <= jobs'[i].last_tick.t
                   /\ jobs'[i].last_tick.t <= clock'
                   /\ jobs[i].job_id \in ticked'
       /\ \A u \in Uuids :
             (Stored(u) /\ Stored(u)' /\ JobOf(jobs, u).last_tick.some) =>
                 JobOf(jobs', u).last_tick.some
      ]_vars

C18_Witness ==
    /\ Ticked
    /\ Len(jobs) = 2
    /\ last.adv[1].prev.some /\ last.adv[1].fired = <<>>
    /\ last.adv[1].prev.t < last.adv[1].now
    /\ ~last.adv[2].prev.some
    /\ jobs[1].last_tick.t = last.adv[1].now
    /\ jobs[2].last_tick.some

(* C19: at most once.  Over ticks at non-decreasing times no occurrence    *)
(* causes more than one invocation of a job's action, and the invocations  *)
(* of a job are for strictly later and later occurrences.                  *)
C19_AtMostOnce ==
    \A u \in Uuids :
        /\ \A o \in Seconds : Count(runs[u], o) <= 1
        /\ \A i, k \in 1..Len(runs[u]) : i < k => runs[u][i] < runs[u][k]

C19_Witness ==
    /\ Ticked
    /\ \E a \in Advances :
          /\ ~a.first
          /\ a.fired # <<>>
          /\ Len(runs[a.id]) > Len(a.fired) + 1

(* C20: no early firing.  Every invocation of an advance at time n is for  *)
(* an occurrence o with previous last_tick < o <= n, never for one after   *)
(* n, and a job whose last_tick is at or after n fires nothing.            *)
C20_NoEarlyFiring ==
    Ticked =>
        \A a \in Advances :
            /\ \A k \in 1..Len(a.fired) :
                  /\ a.fired[k] <= a.now
                  /\ a.fired[k] \in Due(a.schedule, a.prev, a.now)
            /\ (a.prev.some /\ a.prev.t >= a.now) => a.fired = <<>>

C20_Witness ==
    /\ Ticked
    /\ \E a \in Advances :
          /\ a.prev.some
          /\ a.prev.t > a.now
          /\ a.schedule = EverySecond
          /\ a.limit = 0
          /\ a.fired = <<>>

====
